---- MODULE Spec2Model ----
(***************************************************************************)
(* A model of the Orbital compositor's window scheme (src/src/scheme.rs):  *)
(* the damage scheduler, the window order and focus manager, the drag      *)
(* state machine, key and mouse dispatch, and the handle protocol          *)
(* (open/read/write/fevent/fmap/fpath/fsync/close).                        *)
(*                                                                         *)
(* Rect, Window and the orbclient events are used by scheme.rs but are     *)
(* defined outside it; they are modelled from their description in the     *)
(* specification (geometry primitives, window, event wire format).         *)
(***************************************************************************)
EXTENDS Integers, Sequences, FiniteSets, TLC

VARIABLES
    windows,        \* BTreeMap<usize, Window>: id -> window
    order,          \* VecDeque<usize>: front is the focused window
    redraws,        \* Vec<Rect>: pending damage
    dragging,       \* DragMode
    win_key,        \* modifier key held
    win_tabbing,    \* window switcher overlay shown
    next_id,        \* isize: id the next open returns
    next_x,         \* cascading placement cursor
    next_y,
    cursor_x,       \* pointer position of the last mouse event
    cursor_y,
    cursor_left,    \* button latches of the last mouse event
    cursor_middle,
    cursor_right,
    background_i,   \* index of the active background
    last,           \* history: the last call, its arguments and its result
    track,          \* history: the run of calls the last call continues
    steps,          \* history: the number of calls made
    sched_in        \* history: the rectangles handed to schedule (SpecSchedule)

vars == <<windows, order, redraws, dragging, win_key, win_tabbing, next_id,
          next_x, next_y, cursor_x, cursor_y, cursor_left, cursor_middle,
          cursor_right, background_i, last, track, steps, sched_in>>

----------------------------------------------------------------------------
(* Bounds of the model *)

\* Spec follows every run for MaxSteps calls
MaxSteps == 4
\* the id counter wraps to 1 after MaxId (isize::MAX in the program)
MaxId == 3
\* SpecTab follows every run for MaxTabSteps calls
MaxTabSteps == 8
\* SpecDrag follows every run for MaxDragSteps calls
MaxDragSteps == 6
\* SpecSchedule hands at most MaxSched rectangles to schedule
MaxSched == 3
\* SpecCascade follows every run for MaxCascadeSteps opens
MaxCascadeSteps == 5
\* SpecTabDrag follows every run for MaxTabDragSteps calls
MaxTabDragSteps == 5

(* Program constants *)

\* scancode of the modifier key
K_WIN == 56
\* orbclient scancodes
K_ESC == 1
K_TAB == 15
K_BKSP == 14
\* a scancode with no binding
K_A == 30
\* OrbitalScheme::new: first cascading position, and the cascade step
NEXT_X0 == 4
NEXT_Y0 == 32
CASCADE == 20
\* width of the window switcher overlay, and height per entry and padding
LIST_W == 400
LIST_ENTRY_H == 20
LIST_PAD == 4
\* the display size handed to OrbitalScheme::new
ScreenW == 64
ScreenH == 64
\* size of the cursor image loaded by OrbitalScheme::new
CursorW == 1
CursorH == 1
\* window layout: title bar height, border width, close hotspot width
TitleH == 1
BorderW == 1
CloseW == 1

----------------------------------------------------------------------------
(* Geometry: Rect *)

Min(a, b) == IF a <= b THEN a ELSE b
Max(a, b) == IF a >= b THEN a ELSE b

\* i32 division truncates toward zero
Div(a, b) == IF a >= 0 THEN a \div b ELSE -((-a) \div b)

RectNew(x, y, w, h) == [x |-> x, y |-> y, w |-> w, h |-> h]

area(r) == r.w * r.h

is_empty(r) == r.w = 0 \/ r.h = 0

contains(r, px, py) ==
    /\ r.x <= px /\ px < r.x + r.w
    /\ r.y <= py /\ py < r.y + r.h

\* the smallest rectangle containing both
container(a, b) ==
    LET left == Min(a.x, b.x)
        right == Max(a.x + a.w, b.x + b.w)
        top == Min(a.y, b.y)
        bottom == Max(a.y + a.h, b.y + b.h)
    IN RectNew(left, top, Max(0, right - left), Max(0, bottom - top))

intersection(a, b) ==
    LET left == Max(a.x, b.x)
        right == Min(a.x + a.w, b.x + b.w)
        top == Max(a.y, b.y)
        bottom == Min(a.y + a.h, b.y + b.h)
    IN RectNew(left, top, Max(0, right - left), Max(0, bottom - top))

\* the integer points of a rectangle
PointsOf(r) ==
    {<<px, py>> \in (r.x .. (r.x + r.w - 1)) \X (r.y .. (r.y + r.h - 1)) : TRUE}

\* the integer points covered by a list of rectangles
CoveredBy(rs) == UNION {PointsOf(rs[i]) : i \in 1..Len(rs)}

\* every point of r lies in some rectangle of rs
Covers(rs, r) ==
    \A p \in PointsOf(r) : \E i \in 1..Len(rs) : contains(rs[i], p[1], p[2])

----------------------------------------------------------------------------
(* The redraw scheduler *)

\* index of the first rectangle the request coalesces with, 0 if none
RECURSIVE CoalesceIndex(_, _, _)
CoalesceIndex(rs, request, i) ==
    IF i > Len(rs) THEN 0
    ELSE IF area(container(rs[i], request)) <= area(rs[i]) + area(request)
         THEN i
         ELSE CoalesceIndex(rs, request, i + 1)

\* a scheduler that forgets the request when nothing coalesces
scheduleDropsRequest(rs, request) ==
    LET i == CoalesceIndex(rs, request, 1)
    IN IF i = 0 THEN rs
       ELSE [rs EXCEPT ![i] = container(rs[i], request)]

\* a scheduler that keeps the rectangle it coalesces with as it was
scheduleKeepsFirst(rs, request) ==
    LET i == CoalesceIndex(rs, request, 1)
    IN IF i = 0 THEN Append(rs, request) ELSE rs

\* a scheduler that coalesces to the common part of the two rectangles
scheduleIntersects(rs, request) ==
    LET i == CoalesceIndex(rs, request, 1)
    IN IF i = 0 THEN Append(rs, request)
       ELSE [rs EXCEPT ![i] = intersection(rs[i], request)]

schedule(rs, request) ==
    LET i == CoalesceIndex(rs, request, 1)
    IN IF i = 0 THEN Append(rs, request)
       ELSE [rs EXCEPT ![i] = container(rs[i], request)]

----------------------------------------------------------------------------
(* Text: a byte string is a sequence of one-character strings; BAD_BYTE      *)
(* stands for a byte that is not valid UTF-8.                                *)

BAD_BYTE == "\\xFF"

from_utf8_ok(buf) == \A i \in 1..Len(buf) : buf[i] # BAD_BYTE

\* index of the first occurrence of sep in s, 0 if none
RECURSIVE FindSep(_, _, _)
FindSep(s, sep, i) ==
    IF i > Len(s) THEN 0
    ELSE IF s[i] = sep THEN i ELSE FindSep(s, sep, i + 1)

\* str::split: the pieces of s between occurrences of sep
RECURSIVE Split(_, _)
Split(s, sep) ==
    LET i == FindSep(s, sep, 1)
    IN IF i = 0 THEN <<s>>
       ELSE <<SubSeq(s, 1, i - 1)>> \o Split(SubSeq(s, i + 1, Len(s)), sep)

\* parts.next().unwrap_or(""), for the k-th call of next
Part(parts, k) == IF k <= Len(parts) THEN parts[k] ELSE <<>>

Digits == <<"0", "1", "2", "3", "4", "5", "6", "7", "8", "9">>

IsDigit(c) == \E d \in 1..10 : Digits[d] = c

DigitVal(c) == (CHOOSE d \in 1..10 : Digits[d] = c) - 1

RECURSIVE DigitsVal(_)
DigitsVal(s) ==
    IF Len(s) = 0 THEN 0
    ELSE 10 * DigitsVal(SubSeq(s, 1, Len(s) - 1)) + DigitVal(s[Len(s)])

\* str::parse::<i32>: an optional sign, then one or more digits. A value out of
\* the i32 range is an error; the model reads numbers of at most 9 digits, which
\* always fit, and takes a longer one as out of range.
ParseI32(s) ==
    LET signed == Len(s) > 0 /\ s[1] \in {"-", "+"}
        body == IF signed THEN Tail(s) ELSE s
        wellformed == /\ Len(body) > 0
                      /\ Len(body) <= 9
                      /\ \A i \in 1..Len(body) : IsDigit(body[i])
        mag == IF wellformed THEN DigitsVal(body) ELSE 0
    IN IF wellformed
       THEN [ok |-> TRUE, v |-> IF s[1] = "-" THEN -mag ELSE mag]
       ELSE [ok |-> FALSE, v |-> 0]

\* a parse that falls back to 0 whatever the default
ParseOrZero(s, default) == IF ParseI32(s).ok THEN ParseI32(s).v ELSE 0

\* parse::<i32>().unwrap_or(default)
ParseOr(s, default) == IF ParseI32(s).ok THEN ParseI32(s).v ELSE default

\* the title of an open url: the sixth part, and the later parts after a '/' each
RECURSIVE JoinFrom(_, _)
JoinFrom(parts, k) ==
    IF k > Len(parts) THEN <<>>
    ELSE <<"/">> \o parts[k] \o JoinFrom(parts, k + 1)

UrlTitle(parts) == Part(parts, 6) \o JoinFrom(parts, 7)

----------------------------------------------------------------------------
(* Events (orbclient): code and the three payload words a, b, c *)

Ev(code, a, b, c) == [code |-> code, a |-> a, b |-> b, c |-> c]

B2I(b) == IF b THEN 1 ELSE 0

\* KeyEvent: a holds the character (not modelled), b the scancode, c pressed
KeyToEvent(k) == Ev("key", 0, k.scancode, B2I(k.pressed))

\* MouseEvent: a, b hold the position, c the button bits
MouseToEvent(m) ==
    Ev("mouse", m.x, m.y,
       B2I(m.left_button) + 2 * B2I(m.middle_button) + 4 * B2I(m.right_button))

FocusEvent(focused) == Ev("focus", B2I(focused), 0, 0)
QuitEvent == Ev("quit", 0, 0, 0)
MoveEvent(x, y) == Ev("move", x, y, 0)
ResizeEvent(w, h) == Ev("resize", w, h, 0)
ScrollEvent(x, y) == Ev("scroll", x, y, 0)

----------------------------------------------------------------------------
(* Window *)

WindowNew(x, y, w, h, title, async, resizable) ==
    [x |-> x, y |-> y, width |-> w, height |-> h, title |-> title,
     async |-> async, resizable |-> resizable, events |-> <<>>]

rect(w) == RectNew(w.x, w.y, w.width, w.height)

title_rect(w) == RectNew(w.x, w.y - TitleH, w.width, TitleH)

right_border_rect(w) == RectNew(w.x + w.width, w.y, BorderW, w.height)

bottom_border_rect(w) == RectNew(w.x, w.y + w.height, w.width, BorderW)

bottom_right_border_rect(w) ==
    RectNew(w.x + w.width, w.y + w.height, BorderW, BorderW)

\* the close hotspot: the right end of the title bar
exit_contains(w, px, py) ==
    /\ contains(title_rect(w), px, py)
    /\ px >= w.x + w.width - CloseW

\* Window::event: append to the queue
WindowEvent(w, e) == [w EXCEPT !.events = Append(@, e)]

set_size(w, width, height) == [w EXCEPT !.width = width, !.height = height]

\* the damage of a window: its title bar, then its client area
ScheduleWindow(rs, w) == schedule(schedule(rs, title_rect(w)), rect(w))

----------------------------------------------------------------------------
(* The compositor state as one value, so that a handler is a function of it *)

Self ==
    [windows |-> windows, order |-> order, redraws |-> redraws,
     dragging |-> dragging, win_key |-> win_key, win_tabbing |-> win_tabbing,
     next_id |-> next_id, next_x |-> next_x, next_y |-> next_y,
     cursor_x |-> cursor_x, cursor_y |-> cursor_y,
     cursor_left |-> cursor_left, cursor_middle |-> cursor_middle,
     cursor_right |-> cursor_right, background_i |-> background_i]

\* DragMode: None, Title(id, x, y), RightBorder(id, off_x),
\* BottomBorder(id, off_y), BottomRightBorder(id, off_x, off_y)
Drag(mode, id, a, b) == [mode |-> mode, id |-> id, a |-> a, b |-> b]
DragNone == Drag("None", 0, 0, 0)

\* the background images loaded at startup: their sizes
Backgrounds == <<[w |-> 2, h |-> 2], [w |-> 4, h |-> 2]>>

\* BTreeMap::insert and BTreeMap::remove
MapInsert(m, id, w) ==
    [i \in DOMAIN m \cup {id} |-> IF i = id THEN w ELSE m[i]]
MapRemove(m, id) == [i \in DOMAIN m \ {id} |-> m[i]]

\* VecDeque::remove(i) for a 0-based index i
SeqRemove(q, i) == SubSeq(q, 1, i) \o SubSeq(q, i + 2, Len(q))

background_rect(s) ==
    IF s.background_i + 1 <= Len(Backgrounds)
    THEN LET bg == Backgrounds[s.background_i + 1]
         IN RectNew(Div(ScreenW, 2) - Div(bg.w, 2),
                    Div(ScreenH, 2) - Div(bg.h, 2), bg.w, bg.h)
    ELSE RectNew(-1, -1, 0, 0)

cursor_rect(s) == RectNew(s.cursor_x, s.cursor_y, CursorW, CursorH)

screen_rect == RectNew(0, 0, ScreenW, ScreenH)

\* damage without the event
DamageOnly(s, id, e) ==
    IF id \in DOMAIN s.windows
    THEN [s EXCEPT !.redraws = ScheduleWindow(@, s.windows[id])]
    ELSE s

\* schedule a window's damage and deliver it an event, if the id has a window
DamageAndTell(s, id, e) ==
    IF id \in DOMAIN s.windows
    THEN [s EXCEPT !.redraws = ScheduleWindow(@, s.windows[id]),
                   !.windows[id] = WindowEvent(@, e)]
    ELSE s

\* a delivery that reaches every window
TellAll(s, e) ==
    [s EXCEPT !.windows = [id \in DOMAIN s.windows |-> WindowEvent(s.windows[id], e)]]

\* deliver an event to the focused window, if there is one
TellFront(s, e) ==
    IF Len(s.order) > 0 /\ Head(s.order) \in DOMAIN s.windows
    THEN [s EXCEPT !.windows[Head(s.order)] = WindowEvent(@, e)]
    ELSE s

----------------------------------------------------------------------------
(* Window switcher *)

\* a rotation that keeps the old front at the front
RotateKeepsFront(q) == q

\* pop_front, then push_back of the popped id
Rotate(q) == Append(Tail(q), Head(q))

\* a switcher that leaves the drag in progress
win_tabKeepsDrag(s) ==
    IF Len(s.order) > 1
    THEN LET s2 == DamageAndTell(s, Head(s.order), FocusEvent(FALSE))
             s3 == [s2 EXCEPT !.order = Rotate(s.order)]
         IN DamageAndTell(s3, Head(s3.order), FocusEvent(TRUE))
    ELSE s

win_tab(s) ==
    IF Len(s.order) > 1
    THEN LET s1 == [s EXCEPT !.dragging = DragNone]
             s2 == DamageAndTell(s1, Head(s.order), FocusEvent(FALSE))
             s3 == [s2 EXCEPT !.order = Rotate(s.order)]
         IN DamageAndTell(s3, Head(s3.order), FocusEvent(TRUE))
    ELSE s

\* the overlay: its rectangle is scheduled for the next frame
draw_window_list(s) ==
    LET n == Cardinality({i \in 1..Len(s.order) : s.order[i] \in DOMAIN s.windows})
        list_h == n * LIST_ENTRY_H + LIST_PAD
        target_rect == RectNew(Div(ScreenW, 2) - Div(LIST_W, 2),
                               Div(ScreenH, 2) - Div(list_h, 2),
                               LIST_W, list_h)
    IN [s EXCEPT !.redraws = schedule(@, target_rect)]

\* a redraw that leaves the damage list as it found it
redrawKeepsDamage(s) == IF s.win_tabbing THEN draw_window_list(s) ELSE s

\* the damage list is drained; the pixels drawn are not modelled
redraw(s) ==
    LET s1 == [s EXCEPT !.redraws = <<>>]
    IN IF s1.win_tabbing THEN draw_window_list(s1) ELSE s1

----------------------------------------------------------------------------
(* Key events *)

\* a key handler that leaves the switcher shown when the modifier is released
key_eventKeepsSwitcher(s, k) ==
    IF k.scancode = K_WIN
    THEN [s EXCEPT !.win_key = k.pressed]
    ELSE IF s.win_key
    THEN IF k.scancode = K_ESC
         THEN IF k.pressed THEN TellFront(s, QuitEvent) ELSE s
         ELSE IF k.scancode = K_TAB
         THEN IF k.pressed THEN win_tab([s EXCEPT !.win_tabbing = TRUE]) ELSE s
         ELSE s
    ELSE TellFront(s, KeyToEvent(k))

key_event(s, k) ==
    IF k.scancode = K_WIN
    THEN [s EXCEPT !.win_key = k.pressed,
                   !.win_tabbing = IF ~k.pressed THEN FALSE ELSE @]
    ELSE IF s.win_key
    THEN IF k.scancode = K_ESC
         THEN IF k.pressed THEN TellFront(s, QuitEvent) ELSE s
         ELSE IF k.scancode = K_TAB
         THEN IF k.pressed THEN win_tab([s EXCEPT !.win_tabbing = TRUE]) ELSE s
         ELSE IF k.scancode = K_BKSP
         THEN IF k.pressed
              THEN LET s1 == [s EXCEPT !.redraws = schedule(@, background_rect(s))]
                       i == s.background_i + 1
                       s2 == [s1 EXCEPT !.background_i =
                                  IF i >= Len(Backgrounds) THEN 0 ELSE i]
                   IN [s2 EXCEPT !.redraws = schedule(@, background_rect(s2))]
              ELSE s
         ELSE s
    ELSE TellFront(s, KeyToEvent(k))

----------------------------------------------------------------------------
(* Mouse events *)

\* which rectangle of the window the pointer hits, in the order the code tests
HitKind(w, px, py) ==
    IF contains(rect(w), px, py) THEN "client"
    ELSE IF contains(title_rect(w), px, py) THEN "title"
    ELSE IF contains(right_border_rect(w), px, py) THEN "right"
    ELSE IF contains(bottom_border_rect(w), px, py) THEN "bottom"
    ELSE IF contains(bottom_right_border_rect(w), px, py) THEN "corner"
    ELSE "none"

\* a hit test that looks at client rectangles only
RECURSIVE FirstHitClient(_, _, _, _)
FirstHitClient(s, px, py, i) ==
    IF i >= Len(s.order) THEN -1
    ELSE IF /\ s.order[i + 1] \in DOMAIN s.windows
            /\ contains(rect(s.windows[s.order[i + 1]]), px, py)
         THEN i
         ELSE FirstHitClient(s, px, py, i + 1)

\* 0-based index in order of the first window the pointer hits, -1 if none
RECURSIVE FirstHit(_, _, _, _)
FirstHit(s, px, py, i) ==
    IF i >= Len(s.order) THEN -1
    ELSE IF /\ s.order[i + 1] \in DOMAIN s.windows
            /\ HitKind(s.windows[s.order[i + 1]], px, py) # "none"
         THEN i
         ELSE FirstHit(s, px, py, i + 1)

\* the mouse event in the window's coordinates
Translate(m, w) ==
    LET e == MouseToEvent(m) IN [e EXCEPT !.a = @ - w.x, !.b = @ - w.y]

\* a focus change that does not tell the old front
RaiseFocusQuiet(s, focus) ==
    IF focus > 0
    THEN LET id == s.order[focus + 1]
             s2 == DamageAndTell(s, id, FocusEvent(TRUE))
         IN [s2 EXCEPT !.order = <<id>> \o SeqRemove(s.order, focus)]
    ELSE s

\* after the hit test: the window at index focus, if not the front, becomes the front
RaiseFocus(s, focus) ==
    IF focus > 0
    THEN LET s1 == DamageAndTell(s, Head(s.order), FocusEvent(FALSE))
             id == s.order[focus + 1]
             s2 == DamageAndTell(s1, id, FocusEvent(TRUE))
         IN [s2 EXCEPT !.order = <<id>> \o SeqRemove(s.order, focus)]
    ELSE s

\* DragMode::None: hit test in focus order, forward, start a drag, change focus
MouseNone(s, m) ==
    LET i == FirstHit(s, m.x, m.y, 0)
        edge_left == m.left_button /\ ~s.cursor_left
        edge_any == \/ edge_left
                    \/ m.middle_button /\ ~s.cursor_middle
                    \/ m.right_button /\ ~s.cursor_right
    IN IF i < 0 THEN s
       ELSE LET id == s.order[i + 1]
                w == s.windows[id]
                kind == HitKind(w, m.x, m.y)
                s1 ==
                    IF kind = "client"
                    THEN [s EXCEPT !.windows[id] = WindowEvent(@, Translate(m, w))]
                    ELSE IF ~edge_left THEN s
                    ELSE IF kind = "title"
                    THEN IF exit_contains(w, m.x, m.y)
                         THEN [s EXCEPT !.windows[id] = WindowEvent(@, QuitEvent)]
                         ELSE [s EXCEPT !.dragging = Drag("Title", id, m.x, m.y)]
                    ELSE IF kind = "right"
                    THEN [s EXCEPT !.dragging =
                              Drag("RightBorder", id, m.x - (w.x + w.width), 0)]
                    ELSE IF kind = "bottom"
                    THEN [s EXCEPT !.dragging =
                              Drag("BottomBorder", id, 0, m.y - (w.y + w.height))]
                    ELSE [s EXCEPT !.dragging =
                              Drag("BottomRightBorder", id,
                                   m.x - (w.x + w.width), m.y - (w.y + w.height))]
                focus == IF kind = "client"
                         THEN IF edge_any THEN i ELSE 0
                         ELSE IF edge_left THEN i ELSE 0
            IN RaiseFocus(s1, focus)

\* a title drag that moves the window by the pointer position, not its change
MouseTitleAbsolute(s, m) ==
    LET id == s.dragging.id
    IN IF ~m.left_button \/ id \notin DOMAIN s.windows
       THEN [s EXCEPT !.dragging = DragNone]
       ELSE IF s.dragging.a # m.x \/ s.dragging.b # m.y
       THEN LET w == s.windows[id]
                r1 == ScheduleWindow(s.redraws, w)
                w1 == [w EXCEPT !.x = @ + m.x, !.y = @ + m.y]
                w2 == WindowEvent(w1, MoveEvent(w1.x, w1.y))
            IN [s EXCEPT !.windows[id] = w2,
                         !.dragging = Drag("Title", id, m.x, m.y),
                         !.redraws = ScheduleWindow(r1, w2)]
       ELSE s

\* a title drag that moves the window without telling it
MouseTitleSilent(s, m) ==
    LET id == s.dragging.id
    IN IF ~m.left_button \/ id \notin DOMAIN s.windows
       THEN [s EXCEPT !.dragging = DragNone]
       ELSE IF s.dragging.a # m.x \/ s.dragging.b # m.y
       THEN LET w == s.windows[id]
                r1 == ScheduleWindow(s.redraws, w)
                w1 == [w EXCEPT !.x = @ + (m.x - s.dragging.a),
                                !.y = @ + (m.y - s.dragging.b)]
            IN [s EXCEPT !.windows[id] = w1,
                         !.dragging = Drag("Title", id, m.x, m.y),
                         !.redraws = ScheduleWindow(r1, w1)]
       ELSE s

\* DragMode::Title(window_id, drag_x, drag_y)
MouseTitle(s, m) ==
    LET id == s.dragging.id
    IN IF ~m.left_button \/ id \notin DOMAIN s.windows
       THEN [s EXCEPT !.dragging = DragNone]
       ELSE IF s.dragging.a # m.x \/ s.dragging.b # m.y
       THEN LET w == s.windows[id]
                r1 == ScheduleWindow(s.redraws, w)
                w1 == [w EXCEPT !.x = @ + (m.x - s.dragging.a),
                                !.y = @ + (m.y - s.dragging.b)]
                w2 == WindowEvent(w1, MoveEvent(w1.x, w1.y))
            IN [s EXCEPT !.windows[id] = w2,
                         !.dragging = Drag("Title", id, m.x, m.y),
                         !.redraws = ScheduleWindow(r1, w2)]
       ELSE s

\* a border drag that survives the release of the button
MouseBorderSticky(s, m) ==
    LET id == s.dragging.id
    IN IF m.left_button /\ id \notin DOMAIN s.windows
       THEN [s EXCEPT !.dragging = DragNone]
       ELSE s

\* a border drag that commits the new size itself
MouseBorderResizes(s, m) ==
    LET id == s.dragging.id
    IN IF ~m.left_button \/ id \notin DOMAIN s.windows
       THEN [s EXCEPT !.dragging = DragNone]
       ELSE LET win == s.windows[id]
                w == IF s.dragging.mode = "BottomBorder" THEN win.width
                     ELSE m.x - s.dragging.a - win.x
                h == IF s.dragging.mode = "RightBorder" THEN win.height
                     ELSE m.y - s.dragging.b - win.y
            IN IF w > 0 /\ h > 0
               THEN [s EXCEPT !.windows[id] =
                         WindowEvent(set_size(@, w, h), ResizeEvent(w, h))]
               ELSE s

\* DragMode::RightBorder, BottomBorder, BottomRightBorder
MouseBorder(s, m) ==
    LET id == s.dragging.id
    IN IF ~m.left_button \/ id \notin DOMAIN s.windows
       THEN [s EXCEPT !.dragging = DragNone]
       ELSE LET win == s.windows[id]
                w == m.x - s.dragging.a - win.x
                h == m.y - s.dragging.b - win.y
                tell ==
                    IF s.dragging.mode = "RightBorder"
                    THEN w > 0 /\ w # win.width
                    ELSE IF s.dragging.mode = "BottomBorder"
                    THEN h > 0 /\ h # win.height
                    ELSE w > 0 /\ h > 0 /\ w # win.width /\ h # win.height
                e == IF s.dragging.mode = "RightBorder"
                     THEN ResizeEvent(w, win.height)
                     ELSE IF s.dragging.mode = "BottomBorder"
                     THEN ResizeEvent(win.width, h)
                     ELSE ResizeEvent(w, h)
            IN IF tell THEN [s EXCEPT !.windows[id] = WindowEvent(@, e)] ELSE s

\* the saved pointer position and button latches
UpdateCursor(s, m) ==
    LET s1 == IF m.x # s.cursor_x \/ m.y # s.cursor_y
              THEN LET r1 == schedule(s.redraws, cursor_rect(s))
                       s0 == [s EXCEPT !.cursor_x = m.x, !.cursor_y = m.y]
                   IN [s0 EXCEPT !.redraws = schedule(r1, cursor_rect(s0))]
              ELSE s
    IN [s1 EXCEPT !.cursor_left = m.left_button,
                  !.cursor_middle = m.middle_button,
                  !.cursor_right = m.right_button]

\* a dispatch that hit-tests and forwards the event after a drag step too
mouse_eventForwardsInDrag(s, m) ==
    LET s1 == IF s.dragging.mode = "None" THEN MouseNone(s, m)
              ELSE IF s.dragging.mode = "Title"
              THEN MouseNone(MouseTitle(s, m), m)
              ELSE MouseNone(MouseBorder(s, m), m)
    IN UpdateCursor(s1, m)

mouse_event(s, m) ==
    LET s1 == IF s.dragging.mode = "None" THEN MouseNone(s, m)
              ELSE IF s.dragging.mode = "Title" THEN MouseTitle(s, m)
              ELSE MouseBorder(s, m)
    IN UpdateCursor(s1, m)

\* OrbitalScheme::event for a scroll event: forwarded as it is
scroll_event(s, e) == TellFront(s, e)

----------------------------------------------------------------------------
(* The scheme protocol: each call gives the new state, the result and its value *)

Res(s, ret, val) == [s |-> s, ret |-> ret, val |-> val]

\* next_id += 1, and back to 1 when the counter overflows to a negative value;
\* MaxId stands for isize::MAX
BumpId(n) == IF n + 1 > MaxId THEN 1 ELSE n + 1

HasFlag(flags, c) == \E i \in 1..Len(flags) : flags[i] = c

\* the redraw of the focused window's decoration, without an event
DamageFront(s) ==
    IF Len(s.order) > 0 /\ Head(s.order) \in DOMAIN s.windows
    THEN [s EXCEPT !.redraws = ScheduleWindow(@, s.windows[Head(s.order)])]
    ELSE s

\* VecDeque::push_front
PushFront(q, id) == <<id>> \o q

\* an open that cascades as soon as one of x, y is negative
openCascadesOnEither(s, url) ==
    IF ~from_utf8_ok(url) THEN Res(s, "EINVAL", 0)
    ELSE
    LET parts == Split(url, "/")
        flags == Part(parts, 1)
        px == ParseOr(Part(parts, 2), 0)
        py == ParseOr(Part(parts, 3), 0)
        id == s.next_id
        cascade == px < 0 \/ py < 0
        s1 == [s EXCEPT
                 !.next_id = BumpId(@),
                 !.next_x = IF ~cascade THEN @
                            ELSE IF @ + CASCADE + CASCADE >= ScreenW THEN CASCADE
                            ELSE @ + CASCADE,
                 !.next_y = IF ~cascade THEN @
                            ELSE IF @ + CASCADE + CASCADE >= ScreenH THEN CASCADE
                            ELSE @ + CASCADE]
        s2 == DamageFront(s1)
        window == WindowNew(IF cascade THEN s.next_x ELSE px,
                            IF cascade THEN s.next_y ELSE py,
                            ParseOr(Part(parts, 4), 0),
                            ParseOr(Part(parts, 5), 0),
                            UrlTitle(parts),
                            HasFlag(flags, "a"), HasFlag(flags, "r"))
    IN Res([s2 EXCEPT !.redraws = ScheduleWindow(@, window),
                      !.order = PushFront(@, id),
                      !.windows = MapInsert(@, id, window)],
           "OK", id)

open(s, url) ==
    IF ~from_utf8_ok(url) THEN Res(s, "EINVAL", 0)
    ELSE
    LET parts == Split(url, "/")
        flags == Part(parts, 1)
        async == HasFlag(flags, "a")
        resizable == HasFlag(flags, "r")
        px == ParseOr(Part(parts, 2), 0)
        py == ParseOr(Part(parts, 3), 0)
        width == ParseOr(Part(parts, 4), 0)
        height == ParseOr(Part(parts, 5), 0)
        title == UrlTitle(parts)
        id == s.next_id
        cascade == px < 0 /\ py < 0
        x == IF cascade THEN s.next_x ELSE px
        y == IF cascade THEN s.next_y ELSE py
        s1 == [s EXCEPT
                 !.next_id = BumpId(@),
                 !.next_x = IF ~cascade THEN @
                            ELSE IF @ + CASCADE + CASCADE >= ScreenW THEN CASCADE
                            ELSE @ + CASCADE,
                 !.next_y = IF ~cascade THEN @
                            ELSE IF @ + CASCADE + CASCADE >= ScreenH THEN CASCADE
                            ELSE @ + CASCADE]
        s2 == DamageFront(s1)
        window == WindowNew(x, y, width, height, title, async, resizable)
    IN Res([s2 EXCEPT !.redraws = ScheduleWindow(@, window),
                      !.order = PushFront(@, id),
                      !.windows = MapInsert(@, id, window)],
           "OK", id)

\* Window::read: up to cap queued events leave the queue; an empty queue gives
\* "would block" to an async window and defers the packet of any other
read(s, id, cap) ==
    IF id \notin DOMAIN s.windows THEN Res(s, "EBADF", 0)
    ELSE LET q == s.windows[id].events
             n == Min(cap, Len(q))
         IN IF n > 0
            THEN Res([s EXCEPT !.windows[id].events = SubSeq(q, n + 1, Len(q))],
                     "OK", n)
            ELSE IF s.windows[id].async THEN Res(s, "EWOULDBLOCK", 0)
            ELSE Res(s, "BLOCKED", 0)

write(s, id, buf) ==
    IF id \notin DOMAIN s.windows THEN Res(s, "EBADF", 0)
    ELSE IF ~from_utf8_ok(buf) THEN Res(s, "EINVAL", 0)
    ELSE
    LET parts == Split(buf, ",")
        w == s.windows[id]
        r1 == ScheduleWindow(s.redraws, w)
    IN IF parts[1] = <<"P">>
       THEN LET w1 == [w EXCEPT !.x = ParseOr(Part(parts, 2), w.x),
                                !.y = ParseOr(Part(parts, 3), w.y)]
            IN Res([s EXCEPT !.windows[id] = w1,
                             !.redraws = ScheduleWindow(r1, w1)],
                   "OK", Len(buf))
       ELSE IF parts[1] = <<"S">>
       THEN LET w1 == set_size(w, ParseOr(Part(parts, 2), w.width),
                                  ParseOr(Part(parts, 3), w.height))
            IN Res([s EXCEPT !.windows[id] = w1,
                             !.redraws = ScheduleWindow(r1, w1)],
                   "OK", Len(buf))
       ELSE IF parts[1] = <<"T">>
       THEN LET w1 == [w EXCEPT !.title = Part(parts, 2)]
            IN Res([s EXCEPT !.windows[id] = w1,
                             !.redraws = schedule(@, title_rect(w1))],
                   "OK", Len(buf))
       ELSE Res(s, "EINVAL", 0)

fevent(s, id) ==
    IF id \in DOMAIN s.windows THEN Res(s, "OK", id) ELSE Res(s, "EBADF", 0)

\* Window::map: the address of the pixel buffer is not modelled
fmap(s, id) ==
    IF id \in DOMAIN s.windows THEN Res(s, "OK", 0) ELSE Res(s, "EBADF", 0)

\* Window::path: the window's flags, geometry and title
WindowPath(w) == <<w.async, w.resizable, w.x, w.y, w.width, w.height, w.title>>

fpath(s, id) ==
    IF id \in DOMAIN s.windows
    THEN Res(s, "OK", WindowPath(s.windows[id]))
    ELSE Res(s, "EBADF", 0)

\* an fsync that accepts any id
fsyncAnyId(s, id) ==
    IF id \in DOMAIN s.windows
    THEN Res([s EXCEPT !.redraws = schedule(@, rect(s.windows[id]))], "OK", 0)
    ELSE Res(s, "OK", 0)

fsync(s, id) ==
    IF id \in DOMAIN s.windows
    THEN Res([s EXCEPT !.redraws = schedule(@, rect(s.windows[id]))], "OK", 0)
    ELSE Res(s, "EBADF", 0)

\* a retain that keeps every id
RetainAll(q, id) == q

\* order.retain(|&e| e != id)
RetainOthers(q, id) == SelectSeq(q, LAMBDA e : e # id)

close(s, id) ==
    LET s1 == DamageFront([s EXCEPT !.order = RetainOthers(@, id)])
    IN IF id \in DOMAIN s.windows
       THEN Res([s1 EXCEPT !.windows = MapRemove(@, id),
                           !.redraws = ScheduleWindow(@, s.windows[id])],
                "OK", 0)
       ELSE Res(s1, "EBADF", 0)

----------------------------------------------------------------------------
(* Inputs *)

\* the ids a client may name: every id open can return
Ids == 1..MaxId

\* open urls: <flags>/<x>/<y>/<width>/<height>/<title>
Urls ==
    { <<"/", "1", "/", "2", "/", "2", "/", "2", "/", "t">>,
      <<"a", "r", "/", "2", "/", "3", "/", "2", "/", "2">>,
      <<"/", "-", "1", "/", "-", "1", "/", "1", "/", "1", "/", "x", "/", "y">>,
      <<BAD_BYTE>> }

\* write payloads
WriteBufs ==
    { <<"P", ",", "3", ",", "3">>,
      <<"P", ",", "x">>,
      <<"S", ",", "1", ",", "3">>,
      <<"T", ",", "a", ",", "b">>,
      <<"X">>,
      <<"P", BAD_BYTE>> }

Keys ==
    [scancode : {K_WIN, K_ESC, K_TAB, K_BKSP, K_A}, pressed : BOOLEAN]

\* pointer positions: on and around the windows the urls place
Points ==
    { <<0, 0>>, <<1, 1>>, <<2, 1>>, <<1, 2>>, <<2, 3>>, <<3, 3>>, <<3, 4>>,
      <<1, 4>> }

\* button states: none, left, middle, right
Buttons ==
    { <<FALSE, FALSE, FALSE>>, <<TRUE, FALSE, FALSE>>,
      <<FALSE, TRUE, FALSE>>, <<FALSE, FALSE, TRUE>> }

MouseOf(p, b) ==
    [x |-> p[1], y |-> p[2], left_button |-> b[1], middle_button |-> b[2],
     right_button |-> b[3]]

MouseEvents == {MouseOf(p, b) : p \in Points, b \in Buttons}

\* read buffers: room for one event, or for two
ReadCaps == {1, 2}

\* rectangles handed to schedule in SpecSchedule
SchedRects ==
    {RectNew(x, y, w, h) : x \in 0..1, y \in 0..1, w \in 1..2, h \in 0..2}

----------------------------------------------------------------------------
(* History *)

Call(op, id, ret, val, arg) ==
    [op |-> op, id |-> id, ret |-> ret, val |-> val, arg |-> arg]

TrackNone ==
    [kind |-> "none", id |-> 0, n |-> 0, order0 |-> <<>>,
     win |-> RectNew(0, 0, 0, 0), dx |-> 0, dy |-> 0]

\* a window with the given client rectangle
WindowAt(r) == WindowNew(r.x, r.y, r.w, r.h, <<>>, FALSE, FALSE)

----------------------------------------------------------------------------
(* The state machine *)

\* OrbitalScheme::new
InitWith(rs) ==
    /\ windows = <<>>
    /\ order = <<>>
    /\ redraws = rs
    /\ dragging = DragNone
    /\ win_key = FALSE
    /\ win_tabbing = FALSE
    /\ next_id = 1
    /\ next_x = NEXT_X0
    /\ next_y = NEXT_Y0
    /\ cursor_x = 0
    /\ cursor_y = 0
    /\ cursor_left = FALSE
    /\ cursor_middle = FALSE
    /\ cursor_right = FALSE
    /\ background_i = 0
    /\ last = Call("new", 0, "", 0, <<>>)
    /\ track = TrackNone
    /\ steps = 0
    /\ sched_in = <<>>

Init == InitWith(<<screen_rect>>)

\* the handler's result becomes the next state
Apply(s, l, t) ==
    /\ windows' = s.windows
    /\ order' = s.order
    /\ redraws' = s.redraws
    /\ dragging' = s.dragging
    /\ win_key' = s.win_key
    /\ win_tabbing' = s.win_tabbing
    /\ next_id' = s.next_id
    /\ next_x' = s.next_x
    /\ next_y' = s.next_y
    /\ cursor_x' = s.cursor_x
    /\ cursor_y' = s.cursor_y
    /\ cursor_left' = s.cursor_left
    /\ cursor_middle' = s.cursor_middle
    /\ cursor_right' = s.cursor_right
    /\ background_i' = s.background_i
    /\ last' = l
    /\ track' = t
    /\ steps' = steps + 1
    /\ UNCHANGED sched_in

OpenOf(urls) ==
    \E url \in urls :
        \E r \in {open(Self, url)} :
           Apply(r.s, Call("open", r.val, r.ret, r.val, url),
                 IF r.ret = "OK" /\ Len(order) = 0 /\ DOMAIN windows = {}
                 THEN [TrackNone EXCEPT !.kind = "open", !.id = r.val,
                                        !.win = rect(r.s.windows[r.val])]
                 ELSE TrackNone)

ReadCall ==
    \E id \in Ids, cap \in ReadCaps :
        \E r \in {read(Self, id, cap)} :
           Apply(r.s, Call("read", id, r.ret, r.val, cap), TrackNone)

WriteCall ==
    \E id \in Ids, buf \in WriteBufs :
        \E r \in {write(Self, id, buf)} :
           Apply(r.s, Call("write", id, r.ret, r.val, buf), TrackNone)

FeventCall ==
    \E id \in Ids :
        \E r \in {fevent(Self, id)} :
           Apply(r.s, Call("fevent", id, r.ret, r.val, <<>>), TrackNone)

FmapCall ==
    \E id \in Ids :
        \E r \in {fmap(Self, id)} :
           Apply(r.s, Call("fmap", id, r.ret, r.val, <<>>), TrackNone)

FpathCall ==
    \E id \in Ids :
        \E r \in {fpath(Self, id)} :
           Apply(r.s, Call("fpath", id, r.ret, r.val, <<>>), TrackNone)

FsyncCall ==
    \E id \in Ids :
        \E r \in {fsync(Self, id)} :
           Apply(r.s, Call("fsync", id, r.ret, r.val, <<>>), TrackNone)

CloseCall ==
    \E id \in Ids :
        \E r \in {close(Self, id)} :
           Apply(r.s, Call("close", id, r.ret, r.val, <<>>),
                 IF track.kind = "open" /\ track.id = id
                 THEN [track EXCEPT !.kind = "closed"]
                 ELSE TrackNone)

KeyEventOf(keys) ==
    \E k \in keys :
        LET tab == k.scancode = K_TAB /\ k.pressed /\ win_key
        IN Apply(key_event(Self, k), Call("key", 0, "", 0, k),
                 IF ~tab THEN TrackNone
                 ELSE IF track.kind = "tab" THEN [track EXCEPT !.n = @ + 1]
                 ELSE [TrackNone EXCEPT !.kind = "tab", !.n = 1,
                                        !.order0 = order,
                                        !.id = dragging.id])

MouseEventOf(events) ==
    \E m \in events :
        \E s \in {mouse_event(Self, m)} :
           Apply(s, Call("mouse", 0, "", 0, m),
                 IF dragging.mode = "None" /\ s.dragging.mode = "Title"
                 THEN [TrackNone EXCEPT !.kind = "drag", !.id = s.dragging.id,
                                        !.win = rect(windows[s.dragging.id])]
                 ELSE IF track.kind = "drag"
                 THEN IF m.left_button
                      THEN [track EXCEPT !.dx = @ + (m.x - cursor_x),
                                         !.dy = @ + (m.y - cursor_y),
                                         !.n = @ + 1]
                      ELSE [track EXCEPT !.kind = "dragged"]
                 ELSE TrackNone)

ScrollEventInCall ==
    LET e == ScrollEvent(0, 1)
    IN Apply(scroll_event(Self, e), Call("scroll", 0, "", 0, e), TrackNone)

\* OrbitalScheme::event for any other event: it is only logged
UnexpectedEventCall ==
    Apply(Self, Call("unexpected", 0, "", 0, <<>>), TrackNone)

RedrawCall ==
    Apply(redraw(Self), Call("redraw", 0, "", 0, <<>>), TrackNone)

\* the calls of Spec: every operation, for MaxSteps calls
Budget == steps < MaxSteps

Open == Budget /\ OpenOf(Urls)
Read == Budget /\ ReadCall
Write == Budget /\ WriteCall
Fevent == Budget /\ FeventCall
Fmap == Budget /\ FmapCall
Fpath == Budget /\ FpathCall
Fsync == Budget /\ FsyncCall
Close == Budget /\ CloseCall
KeyEvent == Budget /\ KeyEventOf(Keys)
MouseEvent == Budget /\ MouseEventOf(MouseEvents)
ScrollEventIn == Budget /\ ScrollEventInCall
UnexpectedEvent == Budget /\ UnexpectedEventCall
Redraw == Budget /\ RedrawCall

Next ==
    \/ Open
    \/ Read
    \/ Write
    \/ Fevent
    \/ Fmap
    \/ Fpath
    \/ Fsync
    \/ Close
    \/ KeyEvent
    \/ MouseEvent
    \/ ScrollEventIn
    \/ UnexpectedEvent
    \/ Redraw

Spec == Init /\ [][Next]_vars

\* the window switcher: opens, and the modifier and TAB keys, for longer runs
TabUrls ==
    { <<"/", "1", "/", "2", "/", "2", "/", "2", "/", "t">>,
      <<"a", "r", "/", "2", "/", "3", "/", "2", "/", "2">> }

TabKeys == [scancode : {K_WIN, K_TAB}, pressed : BOOLEAN]

OpenTab == steps < MaxTabSteps /\ OpenOf(TabUrls)

KeyEventTab == steps < MaxTabSteps /\ KeyEventOf(TabKeys)

NextTab == OpenTab \/ KeyEventTab

SpecTab == Init /\ [][NextTab]_vars

\* dragging: opens, and the pointer with the left button, for longer runs
DragPoints == { <<0, 0>>, <<1, 1>>, <<2, 3>>, <<3, 4>> }

DragButtons == { <<FALSE, FALSE, FALSE>>, <<TRUE, FALSE, FALSE>> }

DragEvents == {MouseOf(p, b) : p \in DragPoints, b \in DragButtons}

OpenDrag == steps < MaxDragSteps /\ OpenOf(TabUrls)

MouseEventDrag == steps < MaxDragSteps /\ MouseEventOf(DragEvents)

NextDrag == OpenDrag \/ MouseEventDrag

SpecDrag == Init /\ [][NextDrag]_vars

\* cascading placement: opens alone, for longer runs; x and y negative, only
\* x negative, only y negative, neither
CascadeUrls ==
    { <<"/", "-", "1", "/", "-", "1", "/", "1", "/", "1">>,
      <<"/", "-", "1", "/", "2", "/", "1", "/", "1">>,
      <<"/", "5", "/", "-", "2", "/", "1", "/", "1">>,
      <<"/", "1", "/", "2", "/", "2", "/", "2">> }

OpenCascade == steps < MaxCascadeSteps /\ OpenOf(CascadeUrls)

SpecCascade == Init /\ [][OpenCascade]_vars

\* the window switcher during a drag: opens, the pointer with the left button
\* on a title bar and on a border, and the modifier and TAB keys
TabDragPoints == { <<1, 1>>, <<3, 3>> }

TabDragEvents == {MouseOf(p, b) : p \in TabDragPoints, b \in DragButtons}

OpenTabDrag == steps < MaxTabDragSteps /\ OpenOf(TabUrls)

MouseEventTabDrag == steps < MaxTabDragSteps /\ MouseEventOf(TabDragEvents)

KeyEventTabDrag == steps < MaxTabDragSteps /\ KeyEventOf(TabKeys)

NextTabDrag == OpenTabDrag \/ MouseEventTabDrag \/ KeyEventTabDrag

SpecTabDrag == Init /\ [][NextTabDrag]_vars

\* schedule alone, from an empty damage list
InitSchedule == InitWith(<<>>)

ScheduleStep ==
    /\ Len(sched_in) < MaxSched
    /\ \E r \in SchedRects :
        /\ redraws' = schedule(redraws, r)
        /\ sched_in' = Append(sched_in, r)
    /\ UNCHANGED <<windows, order, dragging, win_key, win_tabbing, next_id,
                   next_x, next_y, cursor_x, cursor_y, cursor_left,
                   cursor_middle, cursor_right, background_i, last, track,
                   steps>>

SpecSchedule == InitSchedule /\ [][ScheduleStep]_vars

----------------------------------------------------------------------------
(* Properties *)

\* the calls of the scheme protocol that name a window id
ProtoOps == {"read", "write", "fevent", "fmap", "fpath", "fsync", "close"}

\* the ids occurring in a queue of ids
IdsOf(q) == {q[i] : i \in 1..Len(q)}

\* C1: in every reachable state the set of ids in order is the key set of
\* windows
C1_OrderIsWindows == IdsOf(order) = DOMAIN windows

\* C1 witness: a close has succeeded and left another window open
C1_Witness ==
    /\ last.op = "close" /\ last.ret = "OK"
    /\ Len(order) >= 1
    /\ IdsOf(order) = DOMAIN windows

\* C2: a protocol call that returns EBADF or EINVAL leaves windows, order,
\* redraws, dragging and next_id as they were
C2_ErrorsKeepState ==
    [][(last'.op \in ProtoOps /\ last'.ret \in {"EBADF", "EINVAL"})
         => UNCHANGED <<windows, order, redraws, dragging, next_id>>]_vars

\* C3: a protocol call with an id that is not a key of windows returns EBADF;
\* a successful close removes the id from windows, and an id enters windows
\* only as the id an open returns, so every call on a closed id returns EBADF
\* until an open returns that id again
C3_AbsentIdIsEBADF ==
    [][/\ (last'.op \in ProtoOps /\ last'.id \notin DOMAIN windows)
            => last'.ret = "EBADF"
       /\ (last'.op = "close" /\ last'.ret = "OK")
            => last'.id \notin DOMAIN windows'
       /\ \A id \in DOMAIN windows' \ DOMAIN windows :
            last'.op = "open" /\ last'.ret = "OK" /\ last'.val = id]_vars

\* C3 witness: an fsync on an id that was handed out and closed, while another
\* window is open, has returned EBADF
C3_Witness ==
    /\ last.op = "fsync" /\ last.ret = "EBADF"
    /\ last.id < next_id
    /\ last.id \notin DOMAIN windows
    /\ DOMAIN windows # {}

\* the pointer hits one of the five rectangles of the window
Hits(w, px, py) ==
    \/ contains(rect(w), px, py)
    \/ contains(title_rect(w), px, py)
    \/ contains(right_border_rect(w), px, py)
    \/ contains(bottom_border_rect(w), px, py)
    \/ contains(bottom_right_border_rect(w), px, py)

\* some button of the event is down that was up at the last mouse event
EdgeDown(m) ==
    \/ m.left_button /\ ~cursor_left
    \/ m.middle_button /\ ~cursor_middle
    \/ m.right_button /\ ~cursor_right

\* the click of C4: no drag, two windows or more, a button goes down, and the
\* window at position i > 1 of order is the first one hit, in its client area
ClickOn(m, i) ==
    /\ dragging.mode = "None"
    /\ Len(order) >= 2
    /\ EdgeDown(m)
    /\ i \in 2..Len(order)
    /\ contains(rect(windows[order[i]]), m.x, m.y)
    /\ \A j \in 1..(i - 1) : ~Hits(windows[order[j]], m.x, m.y)

\* the click in the coordinates of window w
LocalClick(m, w) ==
    Ev("mouse", m.x - w.x, m.y - w.y,
       B2I(m.left_button) + 2 * B2I(m.middle_button) + 4 * B2I(m.right_button))

\* C4 (as amended): a click in the client area of a window W behind the front
\* makes W the front of order, appends Focus(false) to the old front's queue,
\* and appends to W's queue the translated click first and Focus(true) after it
C4_ClickFocuses ==
    [][\A i \in 2..Len(order) :
         (last'.op = "mouse" /\ ClickOn(last'.arg, i)) =>
            /\ Head(order') = order[i]
            /\ windows'[Head(order)].events =
                 Append(windows[Head(order)].events, FocusEvent(FALSE))
            /\ windows'[order[i]].events =
                 windows[order[i]].events
                   \o <<LocalClick(last'.arg, windows[order[i]]),
                        FocusEvent(TRUE)>>]_vars

\* C4 as stated: W's queue receives Focus(true) first and the click after it
C4_FocusBeforeClick ==
    [][\A i \in 2..Len(order) :
         (last'.op = "mouse" /\ ClickOn(last'.arg, i)) =>
            /\ Head(order') = order[i]
            /\ windows'[Head(order)].events =
                 Append(windows[Head(order)].events, FocusEvent(FALSE))
            /\ windows'[order[i]].events =
                 windows[order[i]].events
                   \o <<FocusEvent(TRUE),
                        LocalClick(last'.arg, windows[order[i]])>>]_vars

\* C4 witness: a mouse event has raised a window: its queue ends with a click
\* and Focus(true), and the queue of the window behind it ends with Focus(false)
C4_Witness ==
    /\ last.op = "mouse"
    /\ Len(order) >= 2
    /\ LET q == windows[order[1]].events
           p == windows[order[2]].events
       IN /\ Len(q) >= 2
          /\ q[Len(q)] = FocusEvent(TRUE)
          /\ q[Len(q) - 1].code = "mouse"
          /\ Len(p) >= 1
          /\ p[Len(p)] = FocusEvent(FALSE)

\* a queue rotated left by k
RotL(q, k) == SubSeq(q, k + 1, Len(q)) \o SubSeq(q, 1, k)

\* C5: after k TAB presses in a row with the modifier held and n >= 2
\* windows, order is the order before the first press rotated left by k mod n,
\* so the window that was at index k mod n is at the front
C5_TabRotates ==
    (track.kind = "tab" /\ Len(track.order0) >= 2) =>
        LET n == Len(track.order0)
            k == track.n % n
        IN /\ order = RotL(track.order0, k)
           /\ Head(order) = track.order0[k + 1]

\* C5 witness: three windows and more presses than windows
C5_Witness ==
    /\ track.kind = "tab"
    /\ Len(track.order0) >= 3
    /\ track.n > Len(track.order0)

\* C6: a title drag followed by the release of the left button leaves the
\* window shifted by the sum of the pointer deltas of the events in between,
\* and dragging = None
C6_DragMoves ==
    track.kind = "dragged" =>
        /\ dragging = DragNone
        /\ track.id \in DOMAIN windows
        /\ windows[track.id].x = track.win.x + track.dx
        /\ windows[track.id].y = track.win.y + track.dy

\* C6 witness: a drag of two events or more that moved the window on both axes
\* has ended
C6_Witness ==
    /\ track.kind = "dragged"
    /\ track.n >= 2
    /\ track.dx # 0
    /\ track.dy # 0

\* C7: open from a state with no windows, then close of the returned id,
\* leaves windows and order empty and redraws covering the window's title and
\* client rectangles
C7_OpenClose ==
    track.kind = "closed" =>
        /\ DOMAIN windows = {}
        /\ order = <<>>
        /\ Covers(redraws, title_rect(WindowAt(track.win)))
        /\ Covers(redraws, rect(WindowAt(track.win)))

\* C7 witness: open and close have run on a damage list that does not hold the
\* whole screen
C7_Witness ==
    /\ track.kind = "closed"
    /\ Len(redraws) >= 1
    /\ \A i \in 1..Len(redraws) : redraws[i] # screen_rect

\* C8 (as amended): the rectangles in redraws cover every point of the
\* rectangles handed to schedule, and schedule(r); schedule(r) leaves exactly
\* the points of r covered
C8_ScheduleCovers ==
    /\ CoveredBy(sched_in) \subseteq CoveredBy(redraws)
    /\ (Len(sched_in) = 2 /\ sched_in[1] = sched_in[2])
         => CoveredBy(redraws) = PointsOf(sched_in[1])

\* C8 as stated: the points covered by redraws are exactly the points of the
\* rectangles handed to schedule
C8_ScheduleExact == CoveredBy(redraws) = CoveredBy(sched_in)

\* C8 witness: three rectangles were scheduled, one coalesced, and redraws
\* covers a point of none of them
C8_Witness ==
    /\ Len(sched_in) = 3
    /\ Len(redraws) = 2
    /\ CoveredBy(redraws) # CoveredBy(sched_in)

\* the rectangle of the window switcher for n entries, centred on the screen
OverlayRect(n) ==
    [x |-> (ScreenW \div 2) - (LIST_W \div 2),
     y |-> (ScreenH \div 2) - ((n * LIST_ENTRY_H + LIST_PAD) \div 2),
     w |-> LIST_W,
     h |-> n * LIST_ENTRY_H + LIST_PAD]

\* C9 (as amended): when redraw completes redraws is empty, unless the window
\* switcher is shown: then redraws holds the overlay's rectangle and nothing
\* else
C9_RedrawDrains ==
    last.op = "redraw" =>
        IF win_tabbing
        THEN redraws = <<OverlayRect(Len(order))>>
        ELSE redraws = <<>>

\* C9 as stated: when redraw completes redraws is empty
C9_RedrawEmpties == last.op = "redraw" => redraws = <<>>

\* C9 witness: a redraw has completed with the switcher shown over a window
C9_Witness ==
    /\ last.op = "redraw"
    /\ win_tabbing
    /\ Len(order) >= 1

\* the events a TAB press delivers to window w when F is the old front and G
\* the new one
TabEvents(w, F, G) ==
    (IF w = F THEN <<FocusEvent(FALSE)>> ELSE <<>>)
      \o (IF w = G THEN <<FocusEvent(TRUE)>> ELSE <<>>)

\* a TAB press with the modifier held is the call just made
TabPressed == last'.op = "key" /\ last'.arg = [scancode |-> K_TAB, pressed |-> TRUE] /\ win_key

\* C10 (as amended): a TAB press with the modifier held sets win_tabbing; with
\* two entries or more in order it delivers Focus(false) to the front window,
\* moves it to the back, and delivers Focus(true) to the window then at the
\* front, and delivers nothing else
C10_TabFocus ==
    [][TabPressed =>
         /\ win_tabbing'
         /\ Len(order) >= 2 =>
              /\ order' = Append(Tail(order), Head(order))
              /\ \A w \in DOMAIN windows :
                   windows'[w].events =
                     windows[w].events \o TabEvents(w, Head(order), order[2])]_vars

\* C10 as stated: the same whenever order is not empty
C10_TabFocusNonEmpty ==
    [][TabPressed =>
         /\ win_tabbing'
         /\ Len(order) >= 1 =>
              /\ order' = Append(Tail(order), Head(order))
              /\ \A w \in DOMAIN windows :
                   windows'[w].events =
                     windows[w].events
                       \o TabEvents(w, Head(order),
                                    Head(Append(Tail(order), Head(order))))]_vars

\* C10 witness: a TAB press has rotated two windows or more: the front's queue
\* ends with Focus(true), the back's with Focus(false)
C10_Witness ==
    /\ last.op = "key"
    /\ last.arg = [scancode |-> K_TAB, pressed |-> TRUE]
    /\ win_tabbing
    /\ Len(order) >= 2
    /\ LET q == windows[order[1]].events
           p == windows[order[Len(order)]].events
       IN /\ Len(q) >= 1 /\ q[Len(q)] = FocusEvent(TRUE)
          /\ Len(p) >= 1 /\ p[Len(p)] = FocusEvent(FALSE)

\* a mouse event with the left button held during a corner drag of a window
\* that is present
CornerDrag(m) ==
    /\ dragging.mode = "BottomRightBorder"
    /\ m.left_button
    /\ dragging.id \in DOMAIN windows

\* C11: in state BottomRightBorder(id, off_x, off_y) with the left button held
\* and the window present, Resize(w, h) is delivered to the window if and only
\* if w > 0, h > 0 and at least one of w, h differs from the window's size
C11_CornerResize ==
    [][(last'.op = "mouse" /\ CornerDrag(last'.arg)) =>
         LET m == last'.arg
             win == windows[dragging.id]
             w == m.x - dragging.a - win.x
             h == m.y - dragging.b - win.y
         IN IF w > 0 /\ h > 0 /\ (w # win.width \/ h # win.height)
            THEN windows'[dragging.id].events =
                   Append(win.events, ResizeEvent(w, h))
            ELSE windows'[dragging.id].events = win.events]_vars

\* C12: in every reachable state a drag state other than None references a
\* window id that is a key of windows
C12_DragRefersToWindow ==
    dragging.mode # "None" => dragging.id \in DOMAIN windows

\* C13: next_id is greater than 0 in every reachable state, and every id an
\* open returns is positive and is not the id of a window open at that moment
C13_FreshIds ==
    /\ [](next_id > 0)
    /\ [][(last'.op = "open" /\ last'.ret = "OK") =>
            /\ last'.val > 0
            /\ last'.val \notin DOMAIN windows]_vars

\* the call just made is a successful write of a message of the given kind
WroteMessage(kind) ==
    /\ last'.op = "write"
    /\ last'.ret = "OK"
    /\ Split(last'.arg, ",")[1] = <<kind>>

\* field k of a message as an integer, or cur if it is missing or unparseable
FieldOr(buf, k, cur) ==
    LET parts == Split(buf, ",")
    IN IF k <= Len(parts) /\ ParseI32(parts[k]).ok
       THEN ParseI32(parts[k]).v
       ELSE cur

\* C14: a write of P,x,y to an existing window sets its position to (x, y),
\* a missing or unparseable field keeping the current coordinate; the window's
\* size and queue, order and dragging are unchanged, and redraws covers the
\* window's title and client rectangles at the old and at the new position
C14_WriteMoves ==
    [][WroteMessage("P") =>
         LET old == windows[last'.id]
             new == windows'[last'.id]
         IN /\ new.x = FieldOr(last'.arg, 2, old.x)
            /\ new.y = FieldOr(last'.arg, 3, old.y)
            /\ new.width = old.width
            /\ new.height = old.height
            /\ new.events = old.events
            /\ order' = order
            /\ dragging' = dragging
            /\ Covers(redraws', title_rect(old))
            /\ Covers(redraws', rect(old))
            /\ Covers(redraws', title_rect(new))
            /\ Covers(redraws', rect(new))]_vars

\* C14 witness: a write of P,3,3 has moved a window to (3, 3) while the damage
\* list did not hold the whole screen
C14_Witness ==
    /\ last.op = "write"
    /\ last.ret = "OK"
    /\ last.arg = <<"P", ",", "3", ",", "3">>
    /\ windows[last.id].x = 3
    /\ windows[last.id].y = 3
    /\ Len(redraws) >= 1
    /\ \A i \in 1..Len(redraws) : redraws[i] # screen_rect

\* C15: after a successful write of "T," followed by a text t to an existing
\* window, the window's recorded title, the one fpath reports, is exactly t
C15_TitleRoundTrip ==
    [][(WroteMessage("T") /\ Len(last'.arg) >= 2) =>
         LET t == SubSeq(last'.arg, 3, Len(last'.arg))
         IN /\ windows'[last'.id].title = t
            /\ fpath(Self', last'.id).val[7] = t]_vars

\* C16: in every dragging state a mouse event with the left button released,
\* or one arriving when the referenced window id is not a key of windows,
\* leaves dragging = None
C16_DragEnds ==
    [][(/\ last'.op = "mouse"
        /\ dragging.mode # "None"
        /\ \/ ~last'.arg.left_button
           \/ dragging.id \notin DOMAIN windows)
         => dragging' = DragNone]_vars

\* C16 witness: the mouse event that released the left button has ended a
\* title drag
C16_Witness ==
    /\ last.op = "mouse"
    /\ ~last.arg.left_button
    /\ track.kind = "dragged"
    /\ dragging = DragNone

\* the three resize drag states
BorderModes == {"RightBorder", "BottomBorder", "BottomRightBorder"}

\* the two windows have the same size
SameSize(w1, w2) == w1.width = w2.width /\ w1.height = w2.height

\* C17: no input event changes a window's size: a mouse event in a resize drag
\* state leaves the dragged window as it was or appends one Resize event to
\* its queue, whether the window is resizable or not; the size recorded under
\* an id changes only by a write of S,w,h to it (or when an open creates a new
\* window under that id)
C17_OnlyWriteResizes ==
    [][/\ \A id \in DOMAIN windows \cap DOMAIN windows' :
            ~SameSize(windows'[id], windows[id]) =>
               \/ WroteMessage("S") /\ last'.id = id
               \/ last'.op = "open" /\ last'.ret = "OK" /\ last'.val = id
       /\ last'.op \in {"key", "mouse", "scroll", "unexpected"} =>
            /\ DOMAIN windows' = DOMAIN windows
            /\ \A id \in DOMAIN windows : SameSize(windows'[id], windows[id])
       /\ (/\ last'.op = "mouse"
           /\ dragging.mode \in BorderModes
           /\ dragging.id \in DOMAIN windows) =>
            LET old == windows[dragging.id]
                new == windows'[dragging.id]
            IN \/ new = old
               \/ /\ Len(new.events) = Len(old.events) + 1
                  /\ new.events[Len(new.events)].code = "resize"
                  /\ new = WindowEvent(old, new.events[Len(new.events)])]_vars

\* C17 witness: a mouse event of a resize drag has told a window that is not
\* resizable a size that the window does not have
C17_Witness ==
    /\ last.op = "mouse"
    /\ dragging.mode \in BorderModes
    /\ dragging.id \in DOMAIN windows
    /\ LET w == windows[dragging.id]
       IN /\ ~w.resizable
          /\ Len(w.events) >= 1
          /\ w.events[Len(w.events)].code = "resize"
          /\ <<w.events[Len(w.events)].a, w.events[Len(w.events)].b>>
               # <<w.width, w.height>>

\* the Move events of a queue
MovesIn(q) == SelectSeq(q, LAMBDA e : e.code = "move")

\* the mouse event m moves the pointer off the grab point of the title drag of
\* window id with the left button held
DragMotion(m, id) ==
    /\ dragging.mode = "Title"
    /\ dragging.id = id
    /\ m.left_button
    /\ <<m.x, m.y>> # <<dragging.a, dragging.b>>

\* C18: during a title drag the dragged window receives exactly one Move
\* event, carrying its new position, for each mouse event with the left button
\* held whose pointer position differs from the grab point, and no window
\* receives a Move event for any other mouse event
C18_DragMoveEvents ==
    [][last'.op = "mouse" =>
         \A id \in DOMAIN windows :
            LET m == last'.arg
                old == windows[id]
                new == windows'[id]
            IN IF DragMotion(m, id)
               THEN /\ new.x = old.x + (m.x - dragging.a)
                    /\ new.y = old.y + (m.y - dragging.b)
                    /\ new.events = Append(old.events, MoveEvent(new.x, new.y))
               ELSE MovesIn(new.events) = MovesIn(old.events)]_vars

\* C18 witness: a title drag of three events with the button held, one of
\* them at the grab point, has ended and the window holds exactly two Move
\* events
C18_Witness ==
    /\ track.kind = "dragged"
    /\ track.n = 3
    /\ track.id \in DOMAIN windows
    /\ Len(MovesIn(windows[track.id].events)) = 2

\* the events the key k appends to the queue of window id; tab tells whether
\* the Focus events of a TAB press are counted
KeyDelivers(id, k, tab) ==
    IF k.scancode = K_WIN THEN <<>>
    ELSE IF ~win_key
    THEN IF Len(order) > 0 /\ id = Head(order)
         THEN <<Ev("key", 0, k.scancode, B2I(k.pressed))>>
         ELSE <<>>
    ELSE IF k.scancode = K_ESC /\ k.pressed /\ Len(order) > 0 /\ id = Head(order)
    THEN <<QuitEvent>>
    ELSE IF tab /\ k.scancode = K_TAB /\ k.pressed /\ Len(order) >= 2
    THEN TabEvents(id, Head(order), order[2])
    ELSE <<>>

\* C19 (as amended): a key other than the modifier arriving while win_key is
\* false is appended to the queue of the front window and to no other queue;
\* while win_key is true no key event is forwarded, and the only events a key
\* produces are a quit event for the front window on ESC press and the Focus
\* events of a TAB press that rotates the focus; the modifier key itself is
\* never forwarded
C19_KeyRouting ==
    [][last'.op = "key" =>
         \A id \in DOMAIN windows :
            windows'[id].events =
              windows[id].events \o KeyDelivers(id, last'.arg, TRUE)]_vars

\* C19 as stated: while win_key is true the only event a key produces is the
\* quit event of an ESC press
C19_KeyRoutingQuitOnly ==
    [][last'.op = "key" =>
         \A id \in DOMAIN windows :
            windows'[id].events =
              windows[id].events \o KeyDelivers(id, last'.arg, FALSE)]_vars

\* C19 witness: with two windows open and the modifier up, a key has been
\* appended to the front window's queue and the other queue holds no key
C19_Witness ==
    /\ last.op = "key"
    /\ last.arg.scancode = K_A
    /\ ~win_key
    /\ Len(order) = 2
    /\ order[1] # order[2]
    /\ LET q == windows[order[1]].events
           p == windows[order[2]].events
       IN /\ Len(q) >= 1
          /\ q[Len(q)] = Ev("key", 0, K_A, B2I(last.arg.pressed))
          /\ \A i \in 1..Len(p) : p[i].code # "key"

\* C20: in every reachable state win_tabbing implies win_key; win_tabbing
\* becomes true only on a TAB press while the modifier is held, and a release
\* of the modifier key sets both win_key and win_tabbing to false
C20_TabbingNeedsKey ==
    /\ [](win_tabbing => win_key)
    /\ [][/\ (win_tabbing' /\ ~win_tabbing) =>
               /\ last'.op = "key"
               /\ last'.arg = [scancode |-> K_TAB, pressed |-> TRUE]
               /\ win_key
          /\ (/\ last'.op = "key"
              /\ last'.arg = [scancode |-> K_WIN, pressed |-> FALSE]) =>
               /\ ~win_key'
               /\ ~win_tabbing']_vars

\* C20 witness: the modifier has been released after a redraw drew the window
\* switcher: both flags are false and the overlay's rectangle is still
\* scheduled
C20_Witness ==
    /\ last.op = "key"
    /\ last.arg = [scancode |-> K_WIN, pressed |-> FALSE]
    /\ ~win_key
    /\ ~win_tabbing
    /\ redraws = <<OverlayRect(Len(order))>>

\* the mouse events of a queue
MiceIn(q) == SelectSeq(q, LAMBDA e : e.code = "mouse")

\* position in order of the first window one of whose five rectangles
\* contains the pointer of m, 0 if there is none
FirstHitAt(m) ==
    LET hit == {i \in 1..Len(order) :
                  /\ order[i] \in DOMAIN windows
                  /\ Hits(windows[order[i]], m.x, m.y)}
    IN IF hit = {} THEN 0
       ELSE CHOOSE i \in hit : \A j \in hit : i <= j

\* the ids that occur in order only after position i
LaterOnly(i) ==
    {order[j] : j \in (i + 1)..Len(order)} \ {order[j] : j \in 1..i}

\* C21: in state None a mouse event is enqueued on at most one window: the
\* first window in focus order one of whose rectangles contains the pointer,
\* and only if the pointer is in its client rectangle, translated by the
\* window's (x, y); the windows later in order receive nothing, and an event
\* that hits no window enqueues nothing
C21_HitTest ==
    [][(last'.op = "mouse" /\ dragging.mode = "None") =>
         LET m == last'.arg
             i == FirstHitAt(m)
         IN /\ \A id \in DOMAIN windows :
                 MiceIn(windows'[id].events) =
                   MiceIn(windows[id].events)
                     \o (IF /\ i > 0
                            /\ id = order[i]
                            /\ contains(rect(windows[id]), m.x, m.y)
                         THEN <<LocalClick(m, windows[id])>>
                         ELSE <<>>)
            /\ i = 0 => windows' = windows
            /\ i > 0 => \A id \in LaterOnly(i) : windows'[id] = windows[id]]_vars

\* C21 witness: the pointer was in the client rectangles of the front window
\* and of the window behind it; the front window's queue ends with the
\* translated event and the other queue holds no mouse event
C21_Witness ==
    /\ last.op = "mouse"
    /\ Len(order) = 2
    /\ order[1] # order[2]
    /\ LET a == windows[order[1]]
           b == windows[order[2]]
       IN /\ contains(rect(a), last.arg.x, last.arg.y)
          /\ contains(rect(b), last.arg.x, last.arg.y)
          /\ Len(a.events) >= 1
          /\ a.events[Len(a.events)] = LocalClick(last.arg, a)
          /\ MiceIn(b.events) = <<>>

\* field k of an open url as an integer, 0 if it is missing or unparseable
UrlField(url, k) ==
    LET parts == Split(url, "/")
    IN IF k <= Len(parts) /\ ParseI32(parts[k]).ok
       THEN ParseI32(parts[k]).v
       ELSE 0

\* the placement cursor of one axis after a cascading open
Advance(n, size) == IF (n + 20) + 20 >= size THEN 20 ELSE n + 20

\* C22: an open whose parsed x and y are both negative places the window at
\* (next_x, next_y) and advances next_x and next_y by 20, each axis resetting
\* to 20 on its own when the advanced value plus 20 reaches the screen's
\* extent; any other open uses the given coordinates and leaves next_x and
\* next_y unchanged
C22_Cascade ==
    [][(last'.op = "open" /\ last'.ret = "OK") =>
         LET x == UrlField(last'.arg, 2)
             y == UrlField(last'.arg, 3)
             w == windows'[last'.val]
         IN IF x < 0 /\ y < 0
            THEN /\ w.x = next_x
                 /\ w.y = next_y
                 /\ next_x' = Advance(next_x, ScreenW)
                 /\ next_y' = Advance(next_y, ScreenH)
            ELSE /\ w.x = x
                 /\ w.y = y
                 /\ next_x' = next_x
                 /\ next_y' = next_y]_vars

\* C22 witness: a cascading open has placed its window when next_y had been
\* reset and next_x had not, and has left next_x reset and next_y advanced
C22_Witness ==
    /\ last.op = "open"
    /\ last.ret = "OK"
    /\ UrlField(last.arg, 2) < 0
    /\ UrlField(last.arg, 3) < 0
    /\ windows[last.val].x = 24
    /\ windows[last.val].y = 20
    /\ next_x = 20
    /\ next_y = 40

\* C23: after schedule(redraws, r) every point of r and every point covered
\* by a rectangle of redraws before the call is covered by a rectangle of
\* redraws, so a rectangle once scheduled stays covered while nothing drains
\* the list
C23_ScheduleKeepsCovered ==
    [][/\ Len(sched_in') = Len(sched_in) + 1
       /\ PointsOf(sched_in'[Len(sched_in')]) \subseteq CoveredBy(redraws')
       /\ CoveredBy(redraws) \subseteq CoveredBy(redraws')
       /\ \A i \in 1..Len(sched_in) :
            PointsOf(sched_in[i]) \subseteq CoveredBy(redraws')]_vars

\* C23 witness: three rectangles that are not empty were scheduled and
\* coalesced into a single rectangle that is none of them
C23_Witness ==
    /\ Len(sched_in) = 3
    /\ \A i \in 1..3 : ~is_empty(sched_in[i])
    /\ Len(redraws) = 1
    /\ \A i \in 1..3 : redraws[1] # sched_in[i]

\* C24: in every reachable state order holds each window id at most once, so
\* its length is the number of entries of windows
C24_OrderNoDuplicates ==
    /\ \A i, j \in 1..Len(order) : order[i] = order[j] => i = j
    /\ Len(order) = Cardinality(DOMAIN windows)

\* C25: a TAB press with the modifier held and two windows or more leaves
\* dragging = None whatever the drag state was; with fewer than two windows
\* it leaves dragging and order unchanged and delivers no event
C25_TabCancelsDrag ==
    [][TabPressed =>
         IF Len(order) >= 2
         THEN dragging' = DragNone
         ELSE /\ dragging' = dragging
              /\ order' = order
              /\ \A id \in DOMAIN windows :
                   windows'[id].events = windows[id].events]_vars

\* C25 witness: a TAB press that found a drag in progress and two windows or
\* more has left dragging = None
C25_Witness ==
    /\ track.kind = "tab"
    /\ track.n = 1
    /\ track.id # 0
    /\ Len(track.order0) >= 2
    /\ dragging = DragNone

\* C26: a mouse event that finds dragging other than None is forwarded to no
\* window and leaves order as it was; it enqueues nothing but one Move or
\* Resize event on the dragged window, and the event that releases the button
\* leaves every window as it was
C26_DragSwallowsMouse ==
    [][(last'.op = "mouse" /\ dragging.mode # "None") =>
         /\ order' = order
         /\ DOMAIN windows' = DOMAIN windows
         /\ \A id \in DOMAIN windows :
              \/ windows'[id].events = windows[id].events
              \/ /\ id = dragging.id
                 /\ last'.arg.left_button
                 /\ Len(windows'[id].events) = Len(windows[id].events) + 1
                 /\ SubSeq(windows'[id].events, 1, Len(windows[id].events))
                      = windows[id].events
                 /\ windows'[id].events[Len(windows'[id].events)].code
                      \in {"move", "resize"}
         /\ ~last'.arg.left_button => windows' = windows]_vars

\* C26 witness: a title drag has moved a window and ended with a release of
\* the button over the window's client rectangle, and the window's queue
\* holds its Move events and no mouse event
C26_Witness ==
    /\ last.op = "mouse"
    /\ ~last.arg.left_button
    /\ track.kind = "dragged"
    /\ track.id \in DOMAIN windows
    /\ contains(rect(windows[track.id]), last.arg.x, last.arg.y)
    /\ Len(MovesIn(windows[track.id].events)) >= 1
    /\ MiceIn(windows[track.id].events) = <<>>

====
